---------------------------- MODULE Spec2Model ----------------------------
(***************************************************************************)
(* Model of the Keysight E3631A driver (src/Keysight_E3631A.py).           *)
(*                                                                         *)
(* Numbers.  Voltages and currents are Python floats in the driver.  Here  *)
(* a value is an integer count of micro-units (1.0 is Scale = 1000000), so *)
(* that every numeral with six digits after the decimal point, which is    *)
(* what the driver prints and the instrument reports, is represented       *)
(* exactly.  round(x, 4) is then a rounding to a multiple of 100.          *)
(*                                                                         *)
(* Text.  A Python str or bytes object is a sequence of one-character      *)
(* strings, so that splitting, stripping, upper-casing, formatting and     *)
(* parsing are computed character by character.                            *)
(*                                                                         *)
(* Optional values.  Python's None is the empty sequence <<>> and a        *)
(* present value v is the one-element sequence <<v>>.                      *)
(***************************************************************************)
EXTENDS Integers, Sequences, FiniteSets, TLC

VARIABLES
    phase,            \* "new": no instance yet; "ready": __init__ has returned
    serial_timeout,   \* self._serial_timeout (optional integer)
    serial_parity,    \* self._serial_parity
    mirror,           \* self._{P6V,P25V,N25V}_{voltage,current}
    user,             \* the module-level USER_MIN_* / USER_MAX_* limits
    dev,              \* the instrument's own setpoints, per output
    last,             \* what the latest operation did (history)
    repeated,         \* the latest operation is a set that completed and
                      \* repeats the completed set just before it (history)
    nops,             \* operations performed so far
    limit,            \* operations explored in this behaviour
    codec             \* latest call of _generate_apply_command (SpecCodec)

vars == <<phase, serial_timeout, serial_parity, mirror, user, dev, last,
          repeated, nops, limit, codec>>

(***************************************************************************)
(* Bounds of the exploration.                                              *)
(***************************************************************************)
MaxOps == 3
MaxOpsNew == 1

(***************************************************************************)
(* Program constants, in micro-units where they are quantities.            *)
(***************************************************************************)
Scale == 1000000

_FACTORY_MIN_P6V_VOLTAGE == 0
_FACTORY_MAX_P6V_VOLTAGE == 6000000
_FACTORY_MIN_P25V_VOLTAGE == 0
_FACTORY_MAX_P25V_VOLTAGE == 25000000
_FACTORY_MIN_N25V_VOLTAGE == -25000000
_FACTORY_MAX_N25V_VOLTAGE == 0
_FACTORY_MIN_P6V_CURRENT == 0
_FACTORY_MAX_P6V_CURRENT == 5000000
_FACTORY_MIN_P25V_CURRENT == 0
_FACTORY_MAX_P25V_CURRENT == 1000000
_FACTORY_MIN_N25V_CURRENT == 0
_FACTORY_MAX_N25V_CURRENT == 1000000

DEFAULT_TIMEOUT == 15
_SUPPLY_RESOLVED_DIGITS == 4
\* math.isclose's default rel_tol is 1e-09 (abs_tol is 0): its inverse.
RelTolInverse == 1000000000

Chan == {"P6V", "P25V", "N25V"}
Kind == {"voltage", "current"}
OtherKind(k) == IF k = "voltage" THEN "current" ELSE "voltage"

None == <<>>
Some(v) == <<v>>

Abs(x) == IF x < 0 THEN -x ELSE x
Max(a, b) == IF a < b THEN b ELSE a

(***************************************************************************)
(* Text helpers: Python's str methods on character sequences.              *)
(***************************************************************************)
LowerLetters == <<"a","b","c","d","e","f","g","h","i","j","k","l","m",
                  "n","o","p","q","r","s","t","u","v","w","x","y","z">>
UpperLetters == <<"A","B","C","D","E","F","G","H","I","J","K","L","M",
                  "N","O","P","Q","R","S","T","U","V","W","X","Y","Z">>
DigitChars == <<"0","1","2","3","4","5","6","7","8","9">>
Whitespace == {" ", "\n", "\r", "\t"}

IndexIn(c, letters) ==
    IF \E i \in 1..Len(letters) : letters[i] = c
    THEN CHOOSE i \in 1..Len(letters) : letters[i] = c
    ELSE 0

\* str.upper(), one character
UpperChar(c) ==
    LET i == IndexIn(c, LowerLetters) IN IF i = 0 THEN c ELSE UpperLetters[i]
\* str.lower(), one character
LowerChar(c) ==
    LET i == IndexIn(c, UpperLetters) IN IF i = 0 THEN c ELSE LowerLetters[i]
\* str.upper()
Upper(s) == [i \in 1..Len(s) |-> UpperChar(s[i])]
\* str.lower()
Lower(s) == [i \in 1..Len(s) |-> LowerChar(s[i])]

\* str.endswith(suffix)
EndsWith(s, suffix) ==
    /\ Len(s) >= Len(suffix)
    /\ SubSeq(s, Len(s) - Len(suffix) + 1, Len(s)) = suffix

\* Positions of the separator character c in s, in increasing order.
RECURSIVE SepPositions(_, _, _)
SepPositions(s, c, i) ==
    IF i > Len(s) THEN <<>>
    ELSE IF s[i] = c THEN <<i>> \o SepPositions(s, c, i + 1)
    ELSE SepPositions(s, c, i + 1)

\* The fields of s between the separator positions p.
Fields(s, p) ==
    [k \in 1..(Len(p) + 1) |->
        SubSeq(s, IF k = 1 THEN 1 ELSE p[k - 1] + 1,
                  IF k = Len(p) + 1 THEN Len(s) ELSE p[k] - 1)]

\* str.split(c): the fields between the separators (n separators, n+1 fields)
Split(s, c) == Fields(s, SepPositions(s, c, 1))

\* str.strip(chars): leading and trailing characters of the set removed
RECURSIVE LStrip(_, _)
LStrip(s, chars) ==
    IF s # <<>> /\ Head(s) \in chars THEN LStrip(Tail(s), chars) ELSE s
RECURSIVE RStrip(_, _)
RStrip(s, chars) ==
    IF s # <<>> /\ s[Len(s)] \in chars
    THEN RStrip(SubSeq(s, 1, Len(s) - 1), chars) ELSE s
Strip(s, chars) == RStrip(LStrip(s, chars), chars)

(***************************************************************************)
(* Numbers and their text.                                                 *)
(***************************************************************************)
\* The decimal digits of a natural number, most significant first.
RECURSIVE NatDigits(_)
NatDigits(n) ==
    IF n < 10 THEN <<DigitChars[n + 1]>>
    ELSE NatDigits(n \div 10) \o <<DigitChars[(n % 10) + 1]>>

\* Exactly w decimal digits of n, zero-padded on the left (n < 10^w).
RECURSIVE PadDigits(_, _)
PadDigits(n, w) ==
    IF w = 0 THEN <<>>
    ELSE PadDigits(n \div 10, w - 1) \o <<DigitChars[(n % 10) + 1]>>

\* '{:6f}'.format(float(x)): sign, integer part, point, six fraction digits
\* (the 6 is a minimum width, always exceeded; the precision defaults to 6).
\* A variant printing four digits after the point.
Format4f(x) ==
    (IF x < 0 THEN <<"-">> ELSE <<>>)
        \o NatDigits(Abs(x) \div Scale) \o <<".">>
        \o PadDigits((Abs(x) % Scale) \div 100, 4)

Format6f(x) ==
    (IF x < 0 THEN <<"-">> ELSE <<>>)
        \o NatDigits(Abs(x) \div Scale) \o <<".">> \o PadDigits(Abs(x) % Scale, 6)

\* round(x, _SUPPLY_RESOLVED_DIGITS): to the nearest multiple of 10^-4, which
\* is 100 micro-units.  A decimal tie (x % 100 = 50) is not a tie of the
\* binary float in general; the inputs of the model contain none, and the
\* operator resolves one to the even neighbour.
RoundStep == 100
Round4(x) ==
    LET r == x % RoundStep
        down == x - r
    IN  IF 2 * r < RoundStep THEN down
        ELSE IF 2 * r > RoundStep THEN down + RoundStep
        ELSE IF (down \div RoundStep) % 2 = 0 THEN down ELSE down + RoundStep

\* math.isclose(a, b): abs(a-b) <= rel_tol * max(abs(a), abs(b)), with an
\* exact-equality shortcut.  On integers the bound is the floor of the right
\* hand side.
IsClose(a, b) ==
    \/ a = b
    \/ Abs(a - b) <= Max(Abs(a), Abs(b)) \div RelTolInverse

IsDigit(c) == IndexIn(c, DigitChars) # 0
AllDigits(s) == \A i \in 1..Len(s) : IsDigit(s[i])

RECURSIVE DigitsValue(_)
DigitsValue(s) ==
    IF s = <<>> THEN 0
    ELSE 10 * DigitsValue(SubSeq(s, 1, Len(s) - 1))
            + (IndexIn(s[Len(s)], DigitChars) - 1)

\* The value of the unsigned numeral with integer digits ip and fraction
\* digits fp; fraction digits past the sixth are below the model's resolution
\* and are dropped.
NumeralValue(ip, fp) ==
    DigitsValue(ip) * Scale
        + DigitsValue([i \in 1..6 |-> IF i <= Len(fp) THEN fp[i] ELSE "0"])

ParseDigits(neg, ip, fp) ==
    IF AllDigits(ip) /\ AllDigits(fp) /\ Len(ip) + Len(fp) >= 1
    THEN Some(IF neg THEN -NumeralValue(ip, fp) ELSE NumeralValue(ip, fp))
    ELSE None

ParseParts(neg, parts) ==
    IF Len(parts) > 2 THEN None
    ELSE ParseDigits(neg, parts[1], IF Len(parts) = 2 THEN parts[2] ELSE <<>>)

ParseTrimmed(t) ==
    ParseParts(t # <<>> /\ Head(t) = "-",
               Split(IF t # <<>> /\ Head(t) \in {"-", "+"} THEN Tail(t) ELSE t,
                     "."))

\* float(s) for the plain decimal numerals: surrounding whitespace is
\* ignored, then an optional sign, digits, and an optional point with
\* digits; at least one digit.  The result is None when s is no such numeral
\* (Python raises ValueError) and Some(value) otherwise.  Exponents, inf and
\* nan do not occur in the texts of this model.
ParseFloat(s) == ParseTrimmed(Strip(s, Whitespace))

(***************************************************************************)
(* Command texts.                                                          *)
(***************************************************************************)
ChanText(ch) ==
    CASE ch = "P6V" -> <<"P","6","V">>
      [] ch = "P25V" -> <<"P","2","5","V">>
      [] ch = "N25V" -> <<"N","2","5","V">>

CRLF == <<"\r", "\n">>
LF == <<"\n">>
QUOTE == <<"\"">>
COMMA == <<",">>

BEEP_COMMAND ==
    <<"S","Y","S","T","e","m",":","B","E","E","P","e","r",":",
      "I","M","M","e","d","i","a","t","e">>
VERSION_COMMAND ==
    <<"S","Y","S","T","e","m",":","V","E","R","S","i","o","n","?">>
REMOTE_COMMAND == <<"S","Y","S","T","e","m",":","R","E","M","o","t","e">>
LOCAL_COMMAND == <<"S","Y","S","T","e","m",":","L","O","C","a","l">>
IDN_COMMAND == <<"*","I","D","N","?">>
SELECT_COMMAND ==
    <<"I","N","S","T","r","u","m","e","n","t",":","S","E","L","e","c","t","?">>

APPLY_REQUEST == <<"A","P","P","L","y","?"," ">>
APPLY_SET == <<"A","P","P","L","y"," ">>

(***************************************************************************)
(* _generate_apply_command.  An argument is [t, s, v]: t = "none" for      *)
(* None, "str" for a str with text s, "num" for a number of value v.       *)
(***************************************************************************)
ArgNone == [t |-> "none", s |-> <<>>, v |-> 0]
ArgStr(s) == [t |-> "str", s |-> s, v |-> 0]
ArgNum(v) == [t |-> "num", s |-> <<>>, v |-> v]

ValidOutputs == {<<"P","6","V">>, <<"P","2","5","V">>, <<"N","2","5","V">>}
ApplyTokens == {<<>>, <<"D","E","F">>, <<"M","I","N">>, <<"M","A","X">>}

\* str(a).upper() in ('', 'DEF', 'MIN', 'MAX'): the str() of a float or of
\* None is none of these texts, so only a str argument can be one.
IsApplyToken(a) == a.t = "str" /\ Upper(a.s) \in ApplyTokens

\* '{:6f}'.format(f) of the float f parsed from a str; None when float()
\* raised.
FormatParsed(f) == IF f = None THEN None ELSE Some(Format6f(f[1]))

\* A variant passing a token on in the letter case it was given in.
ApplyFieldAsGiven(a) ==
    IF IsApplyToken(a) \/ a.t = "none"
    THEN Some(IF a.t = "none" THEN <<>> ELSE a.s)
    ELSE IF a.t = "num" THEN Some(Format6f(a.v))
    ELSE FormatParsed(ParseFloat(a.s))

\* The text of one of voltage / current; None when float(a) raises.
ApplyField(a) ==
    IF IsApplyToken(a) \/ a.t = "none"
    THEN Some(IF a.t = "none" THEN <<>> ELSE Upper(a.s))
    ELSE IF a.t = "num" THEN Some(Format6f(a.v))
    ELSE FormatParsed(ParseFloat(a.s))

\* The command from the upper-cased output and the two texts.
ApplyText(out, voltage_str, current_str, request) ==
    IF out \notin ValidOutputs THEN [err |-> "ValueError", text |-> <<>>]
    ELSE IF voltage_str = None \/ current_str = None
    THEN [err |-> "ValueError", text |-> <<>>]
    ELSE IF request THEN [err |-> "", text |-> APPLY_REQUEST \o out]
    ELSE [err |-> "",
          text |-> APPLY_SET \o out \o COMMA \o voltage_str[1]
                      \o COMMA \o current_str[1]]

\* The result is [err, text]: err is "" and text the command, or err names
\* the exception raised.
_generate_apply_command(output, voltage, current, request) ==
    ApplyText(Upper(output), ApplyField(voltage), ApplyField(current), request)

(***************************************************************************)
(* The serial exchange.  The environment of one exchange is e = [fail,     *)
(* raw]: fail is "none", or the call of the serial port that raises        *)
(* ("open", "write", "read"); raw is the line the instrument sends back    *)
(* before the read times out (empty when it sends nothing).                *)
(***************************************************************************)
Fails == {"none", "open", "write", "read"}

\* A variant without the with block: a call that raises leaves the port
\* open.
_send_raw_scpi_command_unscoped(bytestring, timeout, e) ==
    IF e.fail = "open"
    THEN [err |-> TRUE, raw |-> <<>>, sent |-> <<>>,
          io |-> <<"open_failed">>, rto |-> <<>>]
    ELSE IF e.fail = "write"
    THEN [err |-> TRUE, raw |-> <<>>, sent |-> <<>>,
          io |-> <<"open", "write_failed">>, rto |-> <<>>]
    ELSE IF e.fail = "read"
    THEN [err |-> TRUE, raw |-> <<>>, sent |-> <<bytestring>>,
          io |-> <<"open", "write", "read_failed">>,
          rto |-> <<IF timeout = None THEN DEFAULT_TIMEOUT ELSE timeout[1]>>]
    ELSE [err |-> FALSE, raw |-> e.raw, sent |-> <<bytestring>>,
          io |-> <<"open", "write", "read", "close">>,
          rto |-> <<IF timeout = None THEN DEFAULT_TIMEOUT ELSE timeout[1]>>]

\* The result is [err, raw, sent, io, rto]: the bytes written, the calls made
\* on the port in order, and the timeout in force at each readline.
_send_raw_scpi_command(bytestring, timeout, e) ==
    IF e.fail = "open"
    THEN [err |-> TRUE, raw |-> <<>>, sent |-> <<>>,
          io |-> <<"open_failed">>, rto |-> <<>>]
    ELSE IF e.fail = "write"
    THEN [err |-> TRUE, raw |-> <<>>, sent |-> <<>>,
          io |-> <<"open", "write_failed", "close">>, rto |-> <<>>]
    ELSE LET rt == IF timeout = None THEN DEFAULT_TIMEOUT ELSE timeout[1]
         IN IF e.fail = "read"
            THEN [err |-> TRUE, raw |-> <<>>, sent |-> <<bytestring>>,
                  io |-> <<"open", "write", "read_failed", "close">>,
                  rto |-> <<rt>>]
            ELSE [err |-> FALSE, raw |-> e.raw, sent |-> <<bytestring>>,
                  io |-> <<"open", "write", "read", "close">>,
                  rto |-> <<rt>>]

\* A variant stripping every trailing carriage return and line feed.
DeframeStripsAll(raw) == RStrip(raw, {"\r", "\n"})

\* The decoded response without its '\r\n' suffix, when it has one.
Deframe(raw) ==
    IF EndsWith(raw, CRLF) THEN SubSeq(raw, 1, Len(raw) - Len(CRLF)) ELSE raw

\* The result of the raw exchange x with its response deframed.
Responce(x) ==
    [err |-> x.err, resp |-> Deframe(x.raw), raw |-> x.raw, sent |-> x.sent,
     io |-> x.io, rto |-> x.rto]

\* A variant making the exchange a second time when the first raised.
SecondAttempt(x, y) ==
    IF x.err
    THEN Responce([y EXCEPT !.sent = x.sent \o y.sent, !.io = x.io \o y.io,
                            !.rto = x.rto \o y.rto])
    ELSE Responce(x)
send_scpi_command_retrying(command, timeout, e) ==
    SecondAttempt(_send_raw_scpi_command(command \o LF, timeout, e),
                  _send_raw_scpi_command(command \o LF, timeout,
                                         [e EXCEPT !.fail = "none"]))

\* The result is [err, resp, raw, sent, io, rto].
send_scpi_command(command, timeout, e) ==
    Responce(_send_raw_scpi_command(command \o LF, timeout, e))

(***************************************************************************)
(* The instrument on the other end of the line.  It keeps the voltage and  *)
(* current of the last APPLy command it received for an output, and        *)
(* reports them on APPLy?.                                                 *)
(***************************************************************************)
\* The setpoints with those of output ch replaced by the numerals v and c
\* (a field that is no numeral leaves the setpoint as it is).
DevStore(d, ch, v, c) ==
    [d EXCEPT ![ch].voltage = IF v = None THEN @ ELSE v[1],
              ![ch].current = IF c = None THEN @ ELSE c[1]]

\* The setpoints after a command with the comma-separated fields f.
DevApply(d, f) ==
    IF Len(f) = 3 /\ \E ch \in Chan : f[1] = APPLY_SET \o ChanText(ch)
    THEN DevStore(d, CHOOSE ch \in Chan : f[1] = APPLY_SET \o ChanText(ch),
                  ParseFloat(f[2]), ParseFloat(f[3]))
    ELSE d

\* The setpoints after the instrument has received the bytes.
DevReceive(d, bytes) == DevApply(d, Split(Strip(bytes, Whitespace), ","))

\* The setpoints after an exchange: the bytes arrive when they were written.
DevAfter(d, sent) == IF sent = <<>> THEN d ELSE DevReceive(d, sent[1])

\* What the instrument sends back on APPLy? ch, or in place of it.
ReplyShapes ==
    {"pair", "pairLF", "whole", "drift", "silent", "three", "text"}
\* The line for the setpoint texts v and c (v2, c2: the texts of other
\* setpoints).
DevReplyText(v, c, v2, c2, shape) ==
       CASE shape = "pair" ->
              QUOTE \o v \o QUOTE \o COMMA \o QUOTE \o c \o QUOTE \o CRLF
         [] shape = "pairLF" ->
              QUOTE \o v \o QUOTE \o COMMA \o QUOTE \o c \o QUOTE \o LF
         [] shape = "whole" -> QUOTE \o v \o COMMA \o c \o QUOTE \o CRLF
         [] shape = "drift" ->
              QUOTE \o v2 \o QUOTE \o COMMA \o QUOTE \o c2 \o QUOTE \o CRLF
         [] shape = "silent" -> <<>>
         [] shape = "three" -> v \o COMMA \o c \o COMMA \o c \o CRLF
         [] shape = "text" ->
              QUOTE \o <<"E","R","R">> \o QUOTE \o COMMA
                    \o QUOTE \o <<"E","R","R">> \o QUOTE \o CRLF

DevReply(d, ch, shape) ==
    DevReplyText(Format6f(d[ch].voltage), Format6f(d[ch].current),
                 Format6f(d[ch].voltage + RoundStep),
                 Format6f(d[ch].current + RoundStep), shape)

(***************************************************************************)
(* Limits.                                                                 *)
(***************************************************************************)
FACTORY_MIN(ch, kind) ==
    CASE ch = "P6V" /\ kind = "voltage" -> _FACTORY_MIN_P6V_VOLTAGE
      [] ch = "P25V" /\ kind = "voltage" -> _FACTORY_MIN_P25V_VOLTAGE
      [] ch = "N25V" /\ kind = "voltage" -> _FACTORY_MIN_N25V_VOLTAGE
      [] ch = "P6V" /\ kind = "current" -> _FACTORY_MIN_P6V_CURRENT
      [] ch = "P25V" /\ kind = "current" -> _FACTORY_MIN_P25V_CURRENT
      [] ch = "N25V" /\ kind = "current" -> _FACTORY_MIN_N25V_CURRENT

FACTORY_MAX(ch, kind) ==
    CASE ch = "P6V" /\ kind = "voltage" -> _FACTORY_MAX_P6V_VOLTAGE
      [] ch = "P25V" /\ kind = "voltage" -> _FACTORY_MAX_P25V_VOLTAGE
      [] ch = "N25V" /\ kind = "voltage" -> _FACTORY_MAX_N25V_VOLTAGE
      [] ch = "P6V" /\ kind = "current" -> _FACTORY_MAX_P6V_CURRENT
      [] ch = "P25V" /\ kind = "current" -> _FACTORY_MAX_P25V_CURRENT
      [] ch = "N25V" /\ kind = "current" -> _FACTORY_MAX_N25V_CURRENT

\* USER_MIN_* and USER_MAX_* as the module is loaded: copies of the factory
\* limits.
UserDefault ==
    [ch \in Chan |-> [kind \in Kind |->
        [min |-> FACTORY_MIN(ch, kind), max |-> FACTORY_MAX(ch, kind)]]]

\* A variant without the check against the factory limits.
FactoryCheckOff(ch, kind, value) == TRUE

\* The first comparison of a setter: the value against the factory limits.
\* set_N25V_voltage compares with _FACTORY_MAX_N25V_VOLTAGE on both sides.
FactoryCheck(ch, kind, value) ==
    IF ch = "N25V" /\ kind = "voltage"
    THEN _FACTORY_MAX_N25V_VOLTAGE <= value
            /\ value <= _FACTORY_MAX_N25V_VOLTAGE
    ELSE FACTORY_MIN(ch, kind) <= value /\ value <= FACTORY_MAX(ch, kind)

\* The second comparison of a setter: the value against the user limits u.
\* set_N25V_voltage compares with USER_MAX_N25V_VOLTAGE on both sides.
UserCheck(u, ch, kind, value) ==
    IF ch = "N25V" /\ kind = "voltage"
    THEN u[ch][kind].max <= value /\ value <= u[ch][kind].max
    ELSE u[ch][kind].min <= value /\ value <= u[ch][kind].max

(***************************************************************************)
(* The handlers, as functions of the state they read.  x is the result of  *)
(* the exchange the handler makes, NoExchange when it makes none.          *)
(***************************************************************************)
NoExchange ==
    [err |-> FALSE, resp |-> <<>>, raw |-> <<>>, sent |-> <<>>, io |-> <<>>,
     rto |-> <<>>]

\* The command a setter sends once the mirror m holds the new value.
SetCommand(m, ch) ==
    _generate_apply_command(ChanText(ch), ArgNum(m[ch].voltage),
                            ArgNum(m[ch].current), FALSE).text

\* The end of a setter whose exchange gave x, the mirror holding m2.
SetSent(m2, x) ==
    [outcome |-> IF x.err THEN "SerialException" ELSE "ok", mirror |-> m2,
     x |-> x]

\* The setter from the assignment to the mirror on: m2 is the mirror with
\* the rounded value in it.
SetAccepted(m2, timeout, ch, e) ==
    SetSent(m2, send_scpi_command(SetCommand(m2, ch), timeout, e))

\* A variant assigning the mirror before the checks.
SetResultAssignFirst(m, u, timeout, ch, kind, value, e) ==
    IF ~FactoryCheck(ch, kind, value) \/ ~UserCheck(u, ch, kind, value)
    THEN [outcome |-> "ValueError",
          mirror |-> [m EXCEPT ![ch][kind] = Round4(value)],
          x |-> NoExchange]
    ELSE SetAccepted([m EXCEPT ![ch][kind] = Round4(value)], timeout, ch, e)

\* A variant building the command before the assignment to the mirror.
SetResultSendFirst(m, u, timeout, ch, kind, value, e) ==
    IF ~FactoryCheck(ch, kind, value) \/ ~UserCheck(u, ch, kind, value)
    THEN [outcome |-> "ValueError", mirror |-> m, x |-> NoExchange]
    ELSE SetSent([m EXCEPT ![ch][kind] = Round4(value)],
                 send_scpi_command(SetCommand(m, ch), timeout, e))

\* A variant restoring the previous value when the exchange raises.
SetResultRollsBack(m, u, timeout, ch, kind, value, e) ==
    IF ~FactoryCheck(ch, kind, value) \/ ~UserCheck(u, ch, kind, value)
    THEN [outcome |-> "ValueError", mirror |-> m, x |-> NoExchange]
    ELSE IF e.fail # "none"
    THEN SetSent(m, send_scpi_command(
                        SetCommand([m EXCEPT ![ch][kind] = Round4(value)], ch),
                        timeout, e))
    ELSE SetAccepted([m EXCEPT ![ch][kind] = Round4(value)], timeout, ch, e)

\* A variant in which a set of one kind resets the other kind of the output.
SetResultResetsOther(m, u, timeout, ch, kind, value, e) ==
    IF ~FactoryCheck(ch, kind, value) \/ ~UserCheck(u, ch, kind, value)
    THEN [outcome |-> "ValueError", mirror |-> m, x |-> NoExchange]
    ELSE SetAccepted([m EXCEPT ![ch] = [voltage |-> 0, current |-> 0],
                               ![ch][kind] = Round4(value)],
                     timeout, ch, e)

\* set_<ch>_<kind>(value) with the environment e of its exchange:
\* [outcome, mirror, x].
SetResult(m, u, timeout, ch, kind, value, e) ==
    IF ~FactoryCheck(ch, kind, value)
    THEN [outcome |-> "ValueError", mirror |-> m, x |-> NoExchange]
    ELSE IF ~UserCheck(u, ch, kind, value)
    THEN [outcome |-> "ValueError", mirror |-> m, x |-> NoExchange]
    ELSE SetAccepted([m EXCEPT ![ch][kind] = Round4(value)], timeout, ch, e)

\* Building assert_message, which the getters do before the assert: the
\* current getters' template names {ps_curr} and is given ps_volt, so
\* str.format raises KeyError; the voltage getters' message is built.
AssertMessageError(kind) == IF kind = "current" THEN "KeyError" ELSE ""

\* The getter once float() has given supply (None when it raised).
CheckSupply(m, ch, kind, supply) ==
    IF supply = None THEN [outcome |-> "ValueError", ret |-> None]
    ELSE IF AssertMessageError(kind) # ""
    THEN [outcome |-> AssertMessageError(kind), ret |-> None]
    ELSE IF ~IsClose(supply[1], m[ch][kind])
    THEN [outcome |-> "AssertionError", ret |-> None]
    ELSE [outcome |-> "ok", ret |-> supply]

\* A variant reporting a response without two parts as a mismatch.
DecodePartsAsDrift(m, ch, kind, parts) ==
    IF Len(parts) # 2 THEN [outcome |-> "AssertionError", ret |-> None]
    ELSE CheckSupply(m, ch, kind,
            ParseFloat(Strip(IF kind = "voltage" THEN parts[1] ELSE parts[2],
                             {"\""})))

\* The getter once the response is split at its commas: the unpacking into
\* two names raises ValueError unless there are two parts.
DecodeParts(m, ch, kind, parts) ==
    IF Len(parts) # 2 THEN [outcome |-> "ValueError", ret |-> None]
    ELSE CheckSupply(m, ch, kind,
            ParseFloat(Strip(IF kind = "voltage" THEN parts[1] ELSE parts[2],
                             {"\""})))

\* What a getter does with the response text: [outcome, ret].
Decode(m, ch, kind, result) == DecodeParts(m, ch, kind, Split(result, ","))

\* The getter after its exchange gave x.
GetExchanged(x, d) ==
    IF x.err THEN [outcome |-> "SerialException", ret |-> None, x |-> x]
    ELSE [outcome |-> d.outcome, ret |-> d.ret, x |-> x]

GetDecoded(m, ch, kind, x) == GetExchanged(x, Decode(m, ch, kind, x.resp))

\* get_<ch>_<kind>() with the environment e of its exchange: [outcome, ret, x].
GetResult(m, timeout, ch, kind, e) ==
    GetDecoded(m, ch, kind,
        send_scpi_command(
            _generate_apply_command(ChanText(ch), ArgNone, ArgNone, TRUE).text,
            timeout, e))

\* A variant in which a delete resets the setpoint.
DelResultClears(m, ch, kind) ==
    [outcome |-> "ok", mirror |-> [m EXCEPT ![ch][kind] = 0],
     x |-> NoExchange]

\* del_<ch>_<kind>(): [outcome, mirror, x].
DelResult(m, ch, kind) ==
    [outcome |-> "RuntimeError", mirror |-> m, x |-> NoExchange]

\* beep, version, remote_mode, local_mode, selected_output, and the identity
\* query sent through send_scpi_command.
SimpleOps ==
    {"beep", "version", "remote_mode", "local_mode", "selected_output",
     "identify"}
SimpleCommand(op) ==
    CASE op = "beep" -> BEEP_COMMAND
      [] op = "version" -> VERSION_COMMAND
      [] op = "remote_mode" -> REMOTE_COMMAND
      [] op = "local_mode" -> LOCAL_COMMAND
      [] op = "selected_output" -> SELECT_COMMAND
      [] op = "identify" -> IDN_COMMAND

(***************************************************************************)
(* The record of an operation.                                             *)
(***************************************************************************)
Did(op, ch, kind, arg, outcome, ret, x, warned) ==
    [op |-> op, ch |-> ch, kind |-> kind, arg |-> arg, outcome |-> outcome,
     ret |-> ret, resp |-> x.resp, raw |-> x.raw, sent |-> x.sent,
     io |-> x.io, rto |-> x.rto, warned |-> warned]

Nothing == Did("none", "-", "-", None, "ok", None, NoExchange, FALSE)

(***************************************************************************)
(* __init__.                                                               *)
(***************************************************************************)
\* Whether a query answered with the line raw returned an empty response.
EmptyAnswer(raw) == Len(Deframe(raw)) = 0

\* A variant sending the remote-mode command whatever the queries returned.
InitPlanAlwaysRemote(sound, verRaw, idnRaw) ==
    <<[cmd |-> VERSION_COMMAND, raw |-> verRaw]>>
    \o (IF EmptyAnswer(verRaw) THEN <<[cmd |-> IDN_COMMAND, raw |-> idnRaw]>>
        ELSE <<>>)
    \o <<[cmd |-> REMOTE_COMMAND, raw |-> <<>>]>>
    \o (IF sound THEN [i \in 1..3 |-> [cmd |-> BEEP_COMMAND, raw |-> <<>>]]
        ELSE <<>>)

\* The exchanges __init__ makes when none of them raises, in order, each
\* with the line the instrument sends back: the version query, the identity
\* query when the version came back empty, the remote-mode command unless
\* both came back empty, and three beeps when _sound is true.
InitPlan(sound, verRaw, idnRaw) ==
    <<[cmd |-> VERSION_COMMAND, raw |-> verRaw]>>
    \o (IF EmptyAnswer(verRaw) THEN <<[cmd |-> IDN_COMMAND, raw |-> idnRaw]>>
        ELSE <<>>)
    \o (IF EmptyAnswer(verRaw) /\ EmptyAnswer(idnRaw) THEN <<>>
        ELSE <<[cmd |-> REMOTE_COMMAND, raw |-> <<>>]>>)
    \o (IF sound THEN [i \in 1..3 |-> [cmd |-> BEEP_COMMAND, raw |-> <<>>]]
        ELSE <<>>)

\* Whether the RuntimeWarning is raised: both queries were made (the
\* failAt-th exchange is the one that raises, 0 for none) and were answered
\* with nothing.
InitWarns(verRaw, idnRaw, failAt) ==
    /\ EmptyAnswer(verRaw) /\ EmptyAnswer(idnRaw)
    /\ (failAt = 0 \/ failAt > 2)

\* Exchange x followed by the exchanges rest, which are not made when x
\* raised.  resp collects the responses of the exchanges that returned, in
\* order.
RunJoin(x, rest) ==
    IF x.err THEN [x EXCEPT !.resp = <<>>, !.raw = <<>>]
    ELSE [err |-> rest.err, resp |-> <<x.resp>> \o rest.resp,
          raw |-> <<>>, sent |-> x.sent \o rest.sent,
          io |-> x.io \o rest.io, rto |-> x.rto \o rest.rto]

\* The exchanges of the plan from the i-th on, the failAt-th raising at the
\* call `stage` of the port: [err, resp, sent, io, rto] accumulated.
RECURSIVE RunPlan(_, _, _, _, _)
RunPlan(plan, i, timeout, failAt, stage) ==
    IF i > Len(plan) THEN NoExchange
    ELSE RunJoin(send_scpi_command(plan[i].cmd, timeout,
                    [fail |-> IF i = failAt THEN stage ELSE "none",
                     raw |-> plan[i].raw]),
                 RunPlan(plan, i + 1, timeout, failAt, stage))

\* serial.PARITY_NONE, PARITY_EVEN, PARITY_ODD for the lower-cased parity
\* text; "" when it is none of 'none', 'even', 'odd'.
ParityCode(p) ==
    CASE p = <<"n","o","n","e">> -> "N"
      [] p = <<"e","v","e","n">> -> "E"
      [] p = <<"o","d","d">> -> "O"
      [] OTHER -> ""

ParityOf(parityArg) ==
    ParityCode(IF parityArg = None THEN <<"n","o","n","e">>
               ELSE Lower(parityArg[1]))

\* __init__ after its exchanges gave x.
InitRan(parity, timeout, x, warned) ==
    [outcome |-> IF x.err THEN "SerialException" ELSE "ok",
     parity |-> parity, timeout |-> timeout, x |-> x, warned |-> warned]

\* __init__(port, parity=parityArg, timeout=timeoutArg, _sound=sound):
\* [outcome, parity, timeout, x, warned].  int(None) raises TypeError.
InitResult(parityArg, timeoutArg, sound, verRaw, idnRaw, failAt, stage) ==
    IF ParityOf(parityArg) = ""
    THEN [outcome |-> "ValueError", parity |-> "", timeout |-> None,
          x |-> NoExchange, warned |-> FALSE]
    ELSE IF timeoutArg = None
    THEN [outcome |-> "TypeError", parity |-> ParityOf(parityArg),
          timeout |-> None, x |-> NoExchange, warned |-> FALSE]
    ELSE InitRan(ParityOf(parityArg), timeoutArg,
                 RunPlan(InitPlan(sound, verRaw, idnRaw), 1, timeoutArg,
                         failAt, stage),
                 InitWarns(verRaw, idnRaw, failAt))

(***************************************************************************)
(* Inputs of the exploration.                                              *)
(***************************************************************************)
\* Values passed to a setter: just outside and on each factory limit, and
\* inside; on the 25 V outputs the inner value has digits that round()
\* removes, and the P6V voltage has a value outside the factory range by
\* more than round() could bring back.
SetInputs(ch, kind) ==
    CASE ch = "P6V" /\ kind = "voltage" ->
            {-500000, 0, 3300000, 6000000, 6000001}
      [] ch = "P6V" /\ kind = "current" ->
            {-1, 0, 1000000, 5000000, 5000001}
      [] ch = "P25V" /\ kind = "voltage" ->
            {-1, 0, 12345678, 25000000, 25000001}
      [] ch = "P25V" /\ kind = "current" ->
            {-1, 0, 333333, 1000000, 1000001}
      [] ch = "N25V" /\ kind = "voltage" ->
            {-25000001, -25000000, -5123456, 0, 1}
      [] ch = "N25V" /\ kind = "current" ->
            {-1, 0, 333333, 1000000, 1000001}

\* An inner value of each range, used as a user limit.
Inner(ch, kind) ==
    CASE ch = "P6V" /\ kind = "voltage" -> 3300000
      [] ch = "P6V" /\ kind = "current" -> 1000000
      [] ch = "P25V" /\ kind = "voltage" -> 12345678
      [] ch = "P25V" /\ kind = "current" -> 333333
      [] ch = "N25V" /\ kind = "voltage" -> -5123456
      [] ch = "N25V" /\ kind = "current" -> 333333

\* User ranges assigned to USER_MIN_* / USER_MAX_*: the factory range, its
\* lower and upper part, and a wider range.  Every range is ordered
\* (min <= max), as the data model requires of a range.
UserRanges(ch, kind) ==
    {[min |-> FACTORY_MIN(ch, kind), max |-> FACTORY_MAX(ch, kind)],
     [min |-> FACTORY_MIN(ch, kind), max |-> Inner(ch, kind)],
     [min |-> Inner(ch, kind), max |-> FACTORY_MAX(ch, kind)],
     [min |-> FACTORY_MIN(ch, kind) - Scale,
      max |-> FACTORY_MAX(ch, kind) + Scale]}

VersionText == <<"1","9","9","5",".","0">>
IdentityText == <<"E","3","6","3","1","A">>
SimpleReplies ==
    {<<>>, VersionText \o CRLF, IdentityText \o LF, IdentityText}

ParityArgs ==
    {None, Some(<<"E","v","e","n">>), Some(<<"O","D","D">>),
     Some(<<"m","a","r","k">>)}
TimeoutArgs == {None, Some(DEFAULT_TIMEOUT), Some(1)}

CodecOutputs ==
    {<<"P","6","V">>, <<"p","6","v">>, <<"P","2","5","V">>,
     <<"n","2","5","V">>, <<"N","2","5","V">>, <<"P","7","V">>, <<>>}
CodecArgs ==
    {ArgNone, ArgStr(<<"d","e","f">>), ArgStr(<<"M","I","N">>),
     ArgStr(<<"M","a","x">>), ArgStr(<<>>), ArgStr(<<"a","b","c">>),
     ArgStr(<<"1",".","5">>), ArgNum(3300000), ArgNum(1000000),
     ArgNum(-5123500)}

(***************************************************************************)
(* The state machine.                                                      *)
(***************************************************************************)
Zero == [ch \in Chan |-> [voltage |-> 0, current |-> 0]]

NoCall ==
    [output |-> <<>>, voltage |-> ArgNone, current |-> ArgNone,
     request |-> FALSE, err |-> "none", text |-> <<>>]

\* The state after a construction with the default arguments.
Init ==
    /\ phase = "ready"
    /\ serial_timeout = Some(DEFAULT_TIMEOUT)
    /\ serial_parity = "N"
    /\ mirror = Zero
    /\ user = UserDefault
    /\ dev = Zero
    /\ last = Nothing
    /\ repeated = FALSE
    /\ nops = 0
    /\ limit = MaxOps
    /\ codec = NoCall

\* The state before any construction: the class attributes.
InitNew ==
    /\ phase = "new"
    /\ serial_timeout = Some(0)
    /\ serial_parity = ""
    /\ mirror = Zero
    /\ user = UserDefault
    /\ dev = Zero
    /\ last = Nothing
    /\ repeated = FALSE
    /\ nops = 0
    /\ limit = MaxOpsNew
    /\ codec = NoCall

\* The state before a call of _generate_apply_command, its arguments drawn.
InitCodec ==
    /\ phase = "ready"
    /\ serial_timeout = Some(DEFAULT_TIMEOUT)
    /\ serial_parity = "N"
    /\ mirror = Zero
    /\ user = UserDefault
    /\ dev = Zero
    /\ last = Nothing
    /\ repeated = FALSE
    /\ nops = 0
    /\ limit = 0
    /\ codec \in [output : CodecOutputs, voltage : CodecArgs,
                  current : CodecArgs, request : BOOLEAN,
                  err : {"pending"}, text : {<<>>}]

Ready == phase = "ready" /\ nops < limit

\* The environments of an exchange: a call of the port raises, or the
\* instrument answers with one of the lines.
Raising == {[fail |-> f, raw |-> <<>>] : f \in Fails \ {"none"}}
Answering(lines) == {[fail |-> "none", raw |-> l] : l \in lines}

Constructed(timeoutArg, r) ==
    /\ last' = Did("construct", "-", "-", timeoutArg, r.outcome, None, r.x,
                   r.warned)
    /\ IF r.outcome = "ok"
       THEN /\ phase' = "ready"
            /\ serial_parity' = r.parity
            /\ serial_timeout' = r.timeout
       ELSE UNCHANGED <<phase, serial_parity, serial_timeout>>

Construct(parityArg, timeoutArg, sound, verRaw, idnRaw, failAt, stage) ==
    /\ phase = "new"
    /\ Constructed(timeoutArg,
                   InitResult(parityArg, timeoutArg, sound, verRaw, idnRaw,
                              failAt, stage))
    /\ repeated' = FALSE
    /\ UNCHANGED <<mirror, user, dev, nops, limit, codec>>

WasSet(ch, kind, value, r) ==
    /\ mirror' = r.mirror
    /\ dev' = DevAfter(dev, r.x.sent)
    /\ last' = Did("set", ch, kind, Some(value), r.outcome, None, r.x, FALSE)
    /\ repeated' = /\ r.outcome = "ok"
                   /\ last.op = "set" /\ last.outcome = "ok"
                   /\ last.ch = ch /\ last.kind = kind
                   /\ last.arg = Some(value)

Set(ch, kind, value, e) ==
    /\ Ready
    /\ WasSet(ch, kind, value,
              SetResult(mirror, user, serial_timeout, ch, kind, value, e))
    /\ nops' = nops + 1
    /\ UNCHANGED <<phase, serial_timeout, serial_parity, user, limit, codec>>

WasGot(ch, kind, r) ==
    /\ last' = Did("get", ch, kind, None, r.outcome, r.ret, r.x, FALSE)
    /\ dev' = DevAfter(dev, r.x.sent)

Get(ch, kind, e) ==
    /\ Ready
    /\ WasGot(ch, kind, GetResult(mirror, serial_timeout, ch, kind, e))
    /\ repeated' = FALSE
    /\ nops' = nops + 1
    /\ UNCHANGED <<phase, serial_timeout, serial_parity, mirror, user, limit,
                   codec>>

WasDeleted(ch, kind, r) ==
    /\ mirror' = r.mirror
    /\ last' = Did("del", ch, kind, None, r.outcome, None, r.x, FALSE)

Del(ch, kind) ==
    /\ Ready
    /\ WasDeleted(ch, kind, DelResult(mirror, ch, kind))
    /\ repeated' = FALSE
    /\ nops' = nops + 1
    /\ UNCHANGED <<phase, serial_timeout, serial_parity, user, dev, limit,
                   codec>>

WasSent(op, x) ==
    /\ last' = Did(op, "-", "-", None,
                   IF x.err THEN "SerialException" ELSE "ok", None, x, FALSE)
    /\ dev' = DevAfter(dev, x.sent)

Simple(op, e) ==
    /\ Ready
    /\ WasSent(op, send_scpi_command(SimpleCommand(op), serial_timeout, e))
    /\ repeated' = FALSE
    /\ nops' = nops + 1
    /\ UNCHANGED <<phase, serial_timeout, serial_parity, mirror, user, limit,
                   codec>>

\* An assignment to USER_MIN_<ch>_<kind> and USER_MAX_<ch>_<kind>.
SetUserLimits(ch, kind, range) ==
    /\ Ready
    /\ user' = [user EXCEPT ![ch][kind] = range]
    /\ last' = Did("limits", ch, kind, None, "ok", None, NoExchange, FALSE)
    /\ repeated' = FALSE
    /\ nops' = nops + 1
    /\ UNCHANGED <<phase, serial_timeout, serial_parity, mirror, dev, limit,
                   codec>>

\* A call of _generate_apply_command on its own, on the arguments drawn.
Encoded(r) == codec' = [codec EXCEPT !.err = r.err, !.text = r.text]

Encode ==
    /\ codec.err = "pending"
    /\ Encoded(_generate_apply_command(codec.output, codec.voltage,
                                       codec.current, codec.request))
    /\ UNCHANGED <<phase, serial_timeout, serial_parity, mirror, user, dev,
                   last, repeated, nops, limit>>

SetStep == \E ch \in Chan, kind \in Kind :
              \E value \in SetInputs(ch, kind), e \in Raising \cup Answering({<<>>}) :
                 Set(ch, kind, value, e)
GetStep == \E ch \in Chan, kind \in Kind :
              \E e \in Raising
                        \cup Answering({DevReply(dev, ch, shape) :
                                            shape \in ReplyShapes}) :
                 Get(ch, kind, e)
DelStep == \E ch \in Chan, kind \in Kind : Del(ch, kind)
SimpleStep == \E op \in SimpleOps, e \in Raising \cup Answering(SimpleReplies) :
                 Simple(op, e)
LimitsStep == \E ch \in Chan, kind \in Kind :
                 \E range \in UserRanges(ch, kind) :
                    SetUserLimits(ch, kind, range)
ConstructStep ==
    \E parityArg \in ParityArgs, timeoutArg \in TimeoutArgs,
       sound \in BOOLEAN, verRaw \in SimpleReplies, idnRaw \in SimpleReplies,
       failAt \in 0..6, stage \in Fails \ {"none"} :
          Construct(parityArg, timeoutArg, sound, verRaw, idnRaw, failAt,
                    stage)

Next == SetStep \/ GetStep \/ DelStep \/ SimpleStep \/ LimitsStep
NextNew == ConstructStep \/ Next
NextCodec == Encode

Spec == Init /\ [][Next]_vars
SpecNew == InitNew /\ [][NextNew]_vars
SpecCodec == InitCodec /\ [][NextCodec]_vars

(***************************************************************************)
(* The claims.  Helpers first: the ranges and texts as the claims state    *)
(* them.                                                                   *)
(***************************************************************************)
\* factory_min <= v <= factory_max
InFactoryRange(ch, kind, v) ==
    FACTORY_MIN(ch, kind) <= v /\ v <= FACTORY_MAX(ch, kind)
\* user_min <= v <= user_max, for the user limits u
InUserRange(u, ch, kind, v) ==
    u[ch][kind].min <= v /\ v <= u[ch][kind].max

\* The latest step was the operation op.
Stepped(op) == nops' = nops + 1 /\ last'.op = op

\* t is a numeral with exactly six digits after its decimal point.
SixDecimals(t) ==
    /\ Len(t) >= 8
    /\ t[Len(t) - 6] = "."
    /\ \A i \in (Len(t) - 5)..Len(t) : IsDigit(t[i])
    /\ ParseFloat(t) # None

\* The bytes w without their final newline.
Unframed(w) == SubSeq(w, 1, Len(w) - 1)

\* The response is a pair of numbers (each possibly in double quotes).
WellFormedPair(resp) ==
    /\ Len(Split(resp, ",")) = 2
    /\ \A i \in 1..2 : ParseFloat(Strip(Split(resp, ",")[i], {"\""})) # None

\* The number the response reports for the kind.
Reported(resp, kind) ==
    ParseFloat(Strip(Split(resp, ",")[IF kind = "voltage" THEN 1 ELSE 2],
                     {"\""}))[1]

\* A get whose exchange completed with a pair of numbers as the response.
GotPair(l) ==
    l.op = "get" /\ l.outcome # "SerialException" /\ WellFormedPair(l.resp)

\* C1: a set of value v passes validation if and only if v lies in the
\* factory range and in the user range of its channel and kind, both ends
\* included (so every N25V voltage in [-25.0, 0.0] passes under the default
\* user limits); otherwise it is rejected with ValueError.
C1_ValidationIsRangeMembership ==
    last.op = "set" =>
        ((last.outcome # "ValueError")
            <=> (/\ InFactoryRange(last.ch, last.kind, last.arg[1])
                 /\ InUserRange(user, last.ch, last.kind, last.arg[1])))

\* C2: a set whose value fails the factory-range or the user-range check
\* raises ValueError, writes nothing to the transport (it is not even
\* opened), and leaves the six mirrored setpoints as they were.
C2_RejectedSetLeavesNoTrace ==
    [][(/\ Stepped("set")
        /\ ~(/\ InFactoryRange(last'.ch, last'.kind, last'.arg[1])
             /\ InUserRange(user, last'.ch, last'.kind, last'.arg[1])))
       => (/\ last'.outcome = "ValueError"
           /\ last'.sent = <<>>
           /\ last'.io = <<>>
           /\ mirror' = mirror)]_vars

\* C2 witness: a value inside the factory range and outside the user range
\* was rejected while the mirrored setpoint of that channel and kind held a
\* value set before.
C2_Witness ==
    /\ last.op = "set" /\ last.outcome = "ValueError"
    /\ InFactoryRange(last.ch, last.kind, last.arg[1])
    /\ ~InUserRange(user, last.ch, last.kind, last.arg[1])
    /\ mirror[last.ch][last.kind] # 0

\* C3: when the device answers APPLy? with a well-formed pair whose field
\* for the kind is close to the mirrored setpoint, get(kind) returns the
\* device-reported value without raising, for voltage and current alike.
C3_MatchingGetReturns ==
    (/\ GotPair(last)
     /\ IsClose(Reported(last.resp, last.kind), mirror[last.ch][last.kind]))
    => (/\ last.outcome = "ok"
        /\ last.ret = Some(Reported(last.resp, last.kind)))

\* C4: when the device-reported value for the kind differs from the
\* mirrored setpoint, get(kind) fails with AssertionError, returns no value
\* and leaves the mirrored setpoints as they were, for voltage and current
\* alike.
C4_DriftRaisesAssertion ==
    [][(/\ Stepped("get")
        /\ GotPair(last')
        /\ ~IsClose(Reported(last'.resp, last'.kind),
                    mirror[last'.ch][last'.kind]))
       => (/\ last'.outcome = "AssertionError"
           /\ last'.ret = None
           /\ mirror' = mirror)]_vars

\* C5: a successful set(kind, v) immediately followed by get(kind) on the
\* same channel, the device answering with a pair: when the pair reports v
\* rounded to 4 digits the get returns it, and when it reports another value
\* the get raises AssertionError.
C5_SetThenGet ==
    [][(/\ last.op = "set" /\ last.outcome = "ok"
        /\ Stepped("get")
        /\ last'.ch = last.ch /\ last'.kind = last.kind
        /\ GotPair(last'))
       => IF Reported(last'.resp, last'.kind) = Round4(last.arg[1])
          THEN /\ last'.outcome = "ok"
               /\ last'.ret = Some(Round4(last.arg[1]))
          ELSE last'.outcome = "AssertionError"]_vars

C7_RepeatedSetIsIdempotent ==
    [][(/\ last.op = "set" /\ last.outcome = "ok"
        /\ Stepped("set") /\ last'.outcome = "ok"
        /\ last'.ch = last.ch /\ last'.kind = last.kind
        /\ last'.arg = last.arg)
       => (last'.sent = last.sent /\ mirror' = mirror)]_vars

\* C7 witness: the latest set repeated the set before it, of a value other
\* than the initial setpoint, and its command went out.
C7_Witness ==
    /\ repeated
    /\ last.op = "set" /\ last.outcome = "ok"
    /\ last.arg # Some(0)
    /\ Len(last.sent) = 1

\* C8: a delete of any of the six setpoints raises RuntimeError, sends
\* nothing to the transport and leaves the mirrored setpoints as they were.
C8_DeleteAlwaysFails ==
    [][Stepped("del")
       => (/\ last'.outcome = "RuntimeError"
           /\ last'.sent = <<>>
           /\ last'.io = <<>>
           /\ mirror' = mirror)]_vars

\* C8 witness: a delete was attempted on a setpoint holding a value set
\* before.
C8_Witness ==
    /\ last.op = "del" /\ last.outcome = "RuntimeError"
    /\ mirror[last.ch][last.kind] # 0

\* The arguments the claim about the codec speaks of: absent, a number, or
\* one of the tokens DEF, MIN, MAX in any letter case.
C9_Tokens == {<<"D","E","F">>, <<"M","I","N">>, <<"M","A","X">>}
C9_Covered(a) ==
    a.t \in {"none", "num"} \/ (a.t = "str" /\ Upper(a.s) \in C9_Tokens)
\* t is the rendering of the argument a.
C9_Renders(a, t) ==
    CASE a.t = "none" -> t = <<>>
      [] a.t = "str" -> t \in C9_Tokens /\ Lower(t) = Lower(a.s)
      [] a.t = "num" -> SixDecimals(t) /\ ParseFloat(t) = Some(a.v)
\* The call returned the command for the channel text out.
C9_Command(out) ==
    /\ codec.err = ""
    /\ IF codec.request
       THEN codec.text = <<"A","P","P","L","y","?"," ">> \o out
       ELSE /\ Len(Split(codec.text, ",")) = 3
            /\ Split(codec.text, ",")[1] = <<"A","P","P","L","y"," ">> \o out
            /\ C9_Renders(codec.voltage, Split(codec.text, ",")[2])
            /\ C9_Renders(codec.current, Split(codec.text, ",")[3])
C9_Called == codec.err # "pending" /\ codec.err # "none"

\* C9 as stated: the channel must be exactly one of P6V, P25V, N25V; for
\* such a channel the request form is "APPLy? <channel>" and the set form
\* "APPLy <channel>,<voltage>,<current>" with absent rendered empty, a token
\* upper-cased and a number with six fraction digits; any other channel
\* fails with ValueError in both forms.
C9_ExactChannel ==
    (C9_Called /\ C9_Covered(codec.voltage) /\ C9_Covered(codec.current))
    => IF codec.output \in {<<"P","6","V">>, <<"P","2","5","V">>,
                            <<"N","2","5","V">>}
       THEN C9_Command(codec.output)
       ELSE codec.err = "ValueError" /\ codec.text = <<>>

\* C9 amended: the channel is compared after upper-casing, so a channel in
\* any letter case is known and appears upper-cased in the command; a
\* channel whose upper-cased text is none of P6V, P25V, N25V fails with
\* ValueError in both forms.
C9_ChannelAnyCase ==
    (C9_Called /\ C9_Covered(codec.voltage) /\ C9_Covered(codec.current))
    => IF Upper(codec.output) \in {<<"P","6","V">>, <<"P","2","5","V">>,
                                   <<"N","2","5","V">>}
       THEN C9_Command(Upper(codec.output))
       ELSE codec.err = "ValueError" /\ codec.text = <<>>

\* C9 witness: a set-form command was built for the channel written "p6v",
\* with a lower-case token as voltage and a number as current.
C9_Witness ==
    /\ codec.err = "" /\ ~codec.request
    /\ codec.output = <<"p","6","v">>
    /\ codec.voltage = ArgStr(<<"d","e","f">>)
    /\ codec.current = ArgNum(1000000)
    /\ codec.text = <<"A","P","P","L","y"," ","P","6","V",",","D","E","F",",",
                      "1",".","0","0","0","0","0","0">>

\* C10: a construction with timeout None (wait forever) is accepted, and an
\* exchange of an instance so configured reads under the 15 second default
\* timeout, the configured timeout staying None.
C10_InfiniteTimeoutAccepted ==
    /\ (last.op = "construct" /\ last.arg = None)
       => last.outcome # "TypeError"
    /\ (/\ phase = "ready" /\ serial_timeout = None
        /\ last.op \in SimpleOps \cup {"set", "get"}
        /\ \E i \in 1..Len(last.io) : last.io[i] = "read")
       => last.rto = Some(DEFAULT_TIMEOUT)

\* The command cmd is among the writes.
Wrote(sent, cmd) == \E i \in 1..Len(sent) : sent[i] = cmd \o <<"\n">>

\* Some query of the construction (version, identity) got a non-empty
\* response.
C11_Answered(l) ==
    \E i \in 1..Len(l.resp) :
        /\ l.sent[i] \in {<<"S","Y","S","T","e","m",":",
                            "V","E","R","S","i","o","n","?","\n">>,
                          <<"*","I","D","N","?","\n">>}
        /\ Len(l.resp[i]) > 0

\* C11: in a construction that completes, the remote-mode command
\* SYSTem:REMote is sent if and only if the version query or the identity
\* query returned a non-empty response; when both returned empty responses
\* the warning is raised, no remote-mode command is sent, and the
\* construction completes with the six mirrored setpoints at zero.
C11_RemoteIffAnswered ==
    (last.op = "construct" /\ last.outcome = "ok" /\ nops = 0)
    => /\ Wrote(last.sent, <<"S","Y","S","T","e","m",":",
                             "R","E","M","o","t","e">>)
          <=> C11_Answered(last)
       /\ last.warned <=> ~C11_Answered(last)
       /\ ~C11_Answered(last) => Wrote(last.sent, <<"*","I","D","N","?">>)
       /\ phase = "ready"
       /\ mirror = [ch \in Chan |-> [voltage |-> 0, current |-> 0]]

\* C11 witness: a construction completed with the warning raised, the two
\* queries written and no remote-mode command among its writes.
C11_Witness ==
    /\ last.op = "construct" /\ last.outcome = "ok" /\ last.warned
    /\ phase = "ready"
    /\ Wrote(last.sent, VERSION_COMMAND) /\ Wrote(last.sent, IDN_COMMAND)
    /\ ~Wrote(last.sent, REMOTE_COMMAND)

\* Whether the port is held open after the calls io[i..], held telling
\* whether it is before them.
RECURSIVE HeldAfter(_, _, _)
HeldAfter(io, i, held) ==
    IF i > Len(io) THEN held
    ELSE HeldAfter(io, i + 1,
                   CASE io[i] = "open" -> TRUE
                     [] io[i] = "close" -> FALSE
                     [] OTHER -> held)

\* The calls io[i..] are whole exchanges: open, write, read of one line,
\* close; an exchange in which a call raised ends there, closed if it was
\* opened, and is the last.
RECURSIVE ScopedExchanges(_, _)
ScopedExchanges(io, i) ==
    IF i > Len(io) THEN TRUE
    ELSE IF /\ i + 3 <= Len(io)
            /\ SubSeq(io, i, i + 3) = <<"open", "write", "read", "close">>
    THEN ScopedExchanges(io, i + 4)
    ELSE SubSeq(io, i, Len(io))
           \in {<<"open_failed">>, <<"open", "write_failed", "close">>,
                <<"open", "write", "read_failed", "close">>}

\* C12: every exchange opens the transport, writes the command, reads one
\* line and closes the transport; the transport is closed when the exchange
\* ends by a write or read failure as well; so after every operation the
\* transport is not held open.
C12_TransportScoped ==
    /\ ScopedExchanges(last.io, 1)
    /\ ~HeldAfter(last.io, 1, FALSE)

\* C12 witness: a construction in which an exchange after the first ended
\* by a read failure, the port closed after it.
C12_Witness ==
    /\ last.op = "construct" /\ last.outcome = "SerialException"
    /\ Len(last.io) > 4
    /\ SubSeq(last.io, Len(last.io) - 3, Len(last.io))
         = <<"open", "write", "read_failed", "close">>

\* C13: the mirrored setpoint is updated to the rounded new value before
\* the APPLy command is written: when validation passes and the exchange
\* fails with a transport error, the error reaches the caller with the
\* mirrored setpoint holding the new value, and a command that did go out
\* carries it.
C13_MirrorSetBeforeSend ==
    (last.op = "set" /\ last.outcome = "SerialException")
    => /\ mirror[last.ch][last.kind] = Round4(last.arg[1])
       /\ \A i \in 1..Len(last.sent) :
             ParseFloat(Split(Unframed(last.sent[i]), ",")
                           [IF last.kind = "voltage" THEN 2 ELSE 3])
               = Some(Round4(last.arg[1]))

\* C13 witness: a set of a value that rounding changes failed at the open
\* of the port, nothing written, the mirrored setpoint holding the rounded
\* value.
C13_Witness ==
    /\ last.op = "set" /\ last.outcome = "SerialException"
    /\ last.io = <<"open_failed">> /\ last.sent = <<>>
    /\ last.arg = Some(12345678)
    /\ mirror[last.ch][last.kind] = 12345700

\* C14: the six mirrored setpoints are zero when the session is created; a
\* successful set changes the mirrored value of its channel and kind only,
\* to the rounded value, and leaves the other five as they were; get,
\* delete, identify, version, remote and local mode, beep and
\* selected-output change none of the six, whether they succeed or fail.
C14_MirrorFrame ==
    /\ nops = 0 => \A ch \in Chan, kind \in Kind : mirror[ch][kind] = 0
    /\ [][/\ (Stepped("set") /\ last'.outcome = "ok")
             => \A ch \in Chan, kind \in Kind :
                   mirror'[ch][kind]
                     = IF ch = last'.ch /\ kind = last'.kind
                       THEN Round4(last'.arg[1])
                       ELSE mirror[ch][kind]
          /\ (nops' = nops + 1
              /\ last'.op \in {"get", "del", "identify", "version",
                               "remote_mode", "local_mode", "beep",
                               "selected_output"})
             => mirror' = mirror]_vars

\* C14 witness: a successful set while the other kind of its output and a
\* setpoint of another output held values set before.
C14_Witness ==
    /\ last.op = "set" /\ last.outcome = "ok"
    /\ mirror[last.ch][OtherKind(last.kind)] # 0
    /\ \E ch \in Chan \ {last.ch}, kind \in Kind : mirror[ch][kind] # 0

\* The response does not split at its commas into exactly two fields, or
\* the field of the kind, its double quotes stripped, is not a number.
Malformed(resp, kind) ==
    \/ Len(Split(resp, ",")) # 2
    \/ ParseFloat(Strip(Split(resp, ",")[IF kind = "voltage" THEN 1 ELSE 2],
                        {"\""})) = None

\* C15: when the response to APPLy? does not split at its commas into
\* exactly two fields (the empty response of a silent device included) or
\* the selected field is not a number once its double quotes are stripped,
\* get fails with ValueError, not with AssertionError, returns nothing and
\* leaves the mirrored setpoints as they were; the exchange itself, empty
\* read included, completed without error.
C15_MalformedResponse ==
    [][(/\ Stepped("get")
        /\ last'.io = <<"open", "write", "read", "close">>
        /\ Malformed(last'.resp, last'.kind))
       => (/\ last'.outcome = "ValueError"
           /\ last'.ret = None
           /\ mirror' = mirror)]_vars

\* C15 witness: a get of a current whose mirrored value was set before got
\* the empty response of a silent device and failed with ValueError.
C15_Witness ==
    /\ last.op = "get" /\ last.kind = "current"
    /\ last.io = <<"open", "write", "read", "close">>
    /\ last.resp = <<>>
    /\ last.outcome = "ValueError"
    /\ mirror[last.ch][last.kind] # 0

\* C16: every get, every accepted set, and each of identify, version,
\* remote mode, local mode, beep and selected-output performs one exchange:
\* exactly one write followed by exactly one line read; when a call of the
\* exchange raises, or the decoding of the response fails, the error goes
\* to the caller and nothing is written a second time.
C16_NoRetries ==
    (\/ last.op \in {"get", "identify", "version", "remote_mode",
                     "local_mode", "beep", "selected_output"}
     \/ (last.op = "set" /\ last.outcome # "ValueError"))
    => IF last.outcome = "SerialException"
       THEN \/ last.io = <<"open_failed">> /\ last.sent = <<>>
            \/ last.io = <<"open", "write_failed", "close">>
               /\ last.sent = <<>>
            \/ last.io = <<"open", "write", "read_failed", "close">>
               /\ Len(last.sent) = 1
       ELSE /\ last.io = <<"open", "write", "read", "close">>
            /\ Len(last.sent) = 1

\* C16 witness: a get whose response could not be decoded raised after its
\* one exchange.
C16_Witness ==
    /\ last.op = "get" /\ last.outcome = "ValueError"
    /\ last.io = <<"open", "write", "read", "close">>
    /\ Len(last.sent) = 1
    /\ last.resp # <<>>

\* The text of the command of a simple operation.
C17_Text(op) ==
    CASE op = "beep" -> <<"S","Y","S","T","e","m",":","B","E","E","P","e","r",
                          ":","I","M","M","e","d","i","a","t","e">>
      [] op = "version" -> <<"S","Y","S","T","e","m",":",
                             "V","E","R","S","i","o","n","?">>
      [] op = "remote_mode" -> <<"S","Y","S","T","e","m",":",
                                 "R","E","M","o","t","e">>
      [] op = "local_mode" -> <<"S","Y","S","T","e","m",":","L","O","C","a","l">>
      [] op = "identify" -> <<"*","I","D","N","?">>
      [] op = "selected_output" -> <<"I","N","S","T","r","u","m","e","n","t",
                                     ":","S","E","L","e","c","t","?">>

C18_MirrorWithinFactory ==
    /\ \A ch \in Chan, kind \in Kind :
          InFactoryRange(ch, kind, mirror[ch][kind])
    /\ (last.op = "set" /\ last.sent # <<>>)
       => /\ InFactoryRange(last.ch, "voltage",
                ParseFloat(Split(Unframed(last.sent[1]), ",")[2])[1])
          /\ InFactoryRange(last.ch, "current",
                ParseFloat(Split(Unframed(last.sent[1]), ",")[3])[1])

\* C18 witness: with user limits wider than the factory range, a set of a
\* value inside the user range and outside the factory range was rejected,
\* after a set on that output had written a command.
C18_Witness ==
    /\ last.op = "set" /\ last.outcome = "ValueError"
    /\ InUserRange(user, last.ch, last.kind, last.arg[1])
    /\ ~InFactoryRange(last.ch, last.kind, Round4(last.arg[1]))
    /\ mirror[last.ch][last.kind] # 0

\* C19: a set validates the kind being set only and re-sends the mirrored
\* value of the other kind unchecked: once the user range of one kind of a
\* channel excludes the mirrored value of that kind, a set of the other
\* kind with a value inside its factory and user range still passes
\* validation, and the APPLy command it writes carries the excluded
\* mirrored value.
C19_OtherKindUnchecked ==
    (/\ last.op = "set"
     /\ ~InUserRange(user, last.ch, OtherKind(last.kind),
                     mirror[last.ch][OtherKind(last.kind)])
     /\ InFactoryRange(last.ch, last.kind, last.arg[1])
     /\ InUserRange(user, last.ch, last.kind, last.arg[1]))
    => /\ last.outcome # "ValueError"
       /\ last.sent # <<>>
          => ParseFloat(Split(Unframed(last.sent[1]), ",")
                           [IF last.kind = "voltage" THEN 3 ELSE 2])
               = Some(mirror[last.ch][OtherKind(last.kind)])

=============================================================================
